---------------------------- MODULE Spec2Model ----------------------------
(***************************************************************************)
(* Model of createDynamoDBEventProcessor.ts: the DynamoDB stream handler   *)
(* processDynamoDBStreamEvents that turns INSERT change records into       *)
(* pushes to the subscribers of the decoded event.                         *)
(*                                                                         *)
(* JavaScript values are modelled as records with a "kind" field so that   *)
(* undefined, null, a raised error and a real value stay distinguishable.  *)
(***************************************************************************)
EXTENDS Integers, Sequences, FiniteSets, Bags, TLC

(***************************************************************************)
(* Bounds of the model.                                                    *)
(***************************************************************************)
MaxRecords == 2
MaxPages == 2
MaxPageSize == 2
MaxInvocations == 2
MaxNext == 2

(***************************************************************************)
(* Data: change records.                                                   *)
(***************************************************************************)
MutationKinds == {"INSERT", "MODIFY", "REMOVE"}

NoPayload == [form |-> "undefined", data |-> 0]

\* record.dynamodb as the stream delivers it. image "present" carries an
\* attribute map of an ISubscriptionEvent; "absent" is a record without
\* NewImage; "malformed" is a record whose dynamodb field is missing or
\* whose attribute map cannot be walked by the converter.
ImageOf(name, payload) == [image |-> "present", event |-> name, payload |-> payload]

AbsentImage == [image |-> "absent", event |-> "undefined", payload |-> NoPayload]

MalformedImage == [image |-> "malformed", event |-> "undefined", payload |-> NoPayload]

RecordSet ==
    { [eventName |-> "INSERT", dynamodb |-> ImageOf("A", [form |-> "string", data |-> 1])],
      [eventName |-> "INSERT", dynamodb |-> AbsentImage],
      [eventName |-> "INSERT", dynamodb |-> MalformedImage],
      [eventName |-> "MODIFY", dynamodb |-> ImageOf("A", [form |-> "object", data |-> 1])],
      [eventName |-> "REMOVE", dynamodb |-> AbsentImage] }

SeqsUpTo(S, n) == UNION { [1..k -> S] : k \in 0..n }

Batches == SeqsUpTo(RecordSet, MaxRecords)

\* DynamoDB.Converter.unmarshall(record.dynamodb!.NewImage): a present image
\* decodes to its event, an absent NewImage decodes to the empty object
\* (event.event is undefined), a malformed one raises.
UnmarshallThrows(record) == record.dynamodb.image = "malformed"

Unmarshall(record) == [event |-> record.dynamodb.event, payload |-> record.dynamodb.payload]

NoEvent == [event |-> "undefined", payload |-> NoPayload]

(***************************************************************************)
(* Data: connections and subscribers of the registries.                    *)
(***************************************************************************)
\* connection.data.useLegacyProtocol: "true", "false", "undefined" (absent)
\* or "other" (a value that is no boolean).
Connection(id, flag) == [id |-> id, data |-> [useLegacyProtocol |-> flag]]

C1conn == Connection("c1", "false")

C2conn == Connection("c2", "true")

C3conn == Connection("c3", "undefined")

C4conn == Connection("c4", "other")

\* Connections on which sendToConnection raises (stale / gone).
GoneConnections == {"c3"}

\* subscriber.operation: what the execution engine does with it.
\*   match       subscribes to names and resolves every event it is given
\*   stream      as match, then yields one more result
\*   throws      execute rejects
\*   invalid     execute resolves to a plain ExecutionResult (errors)
\*   pullThrows  the first next() of the iterable rejects
\*   yieldsNull  the first value of the iterable is null
Operation(kind, names) == [kind |-> kind, names |-> names]

Subscriber(opId, op, conn) == [operationId |-> opId, operation |-> op, connection |-> conn]

SubscriberPool ==
    << Subscriber("o1", Operation("match", {"A"}), C1conn),
       Subscriber("o2", Operation("stream", {"A", "B"}), C2conn),
       Subscriber("o3", Operation("match", {"A"}), C3conn),
       Subscriber("o4", Operation("match", {"A"}), C4conn),
       Subscriber("o5", Operation("throws", {"A"}), C1conn),
       Subscriber("o6", Operation("invalid", {"A"}), C2conn),
       Subscriber("o7", Operation("pullThrows", {"A"}), C4conn),
       Subscriber("o8", Operation("match", {"B"}), C4conn),
       Subscriber("o9", Operation("yieldsNull", {"A"}), C1conn) >>

SubscriberIds == DOMAIN SubscriberPool

\* A page of subscribersByEventName: the subscribers array of one iteration.
Pages == { p \in SUBSET SubscriberIds : Cardinality(p) <= MaxPageSize }

(***************************************************************************)
(* PubSub: the single-event source handed to the engine.                   *)
(***************************************************************************)
\* typeof event.payload === 'string': a string that is the JSON text of a
\* value ("string") or a string that is no JSON text ("invalid")
IsString(payload) == payload.form \in {"string", "invalid"}

\* JSON.parse raises a SyntaxError on a string that is no JSON text
JSONparseRaises(payload) == payload.form = "invalid"

JSONparse(payload) == [form |-> "object", data |-> payload.data]

\* The argument of asyncIterator: one name or an array of names.
NameRequest(name) == [array |-> FALSE, name |-> name, items |-> {}]

ArrayRequest(names) == [array |-> TRUE, name |-> "none", items |-> names]

NoRequest == [array |-> FALSE, name |-> "none", items |-> {}]

\* Array.isArray(eventNames) ? eventNames : [eventNames]
Names(eventNames) == IF eventNames.array THEN eventNames.items ELSE {eventNames.name}

\* PubSub.asyncIterator: an iterator over the payloads of the wrapped events
\* whose name is among the requested names, a string payload parsed first;
\* the call raises when JSON.parse does.
asyncIterator(events, eventNames) ==
    LET matched == SelectSeq(events, LAMBDA e : e.event \in Names(eventNames))
    IN  IF \E k \in 1..Len(matched) :
               IsString(matched[k].payload) /\ JSONparseRaises(matched[k].payload)
        THEN [tag |-> "raise", items |-> << >>]
        ELSE [tag |-> "iterable",
              items |-> [k \in 1..Len(matched) |->
                           IF IsString(matched[k].payload)
                           THEN JSONparse(matched[k].payload)
                           ELSE matched[k].payload]]

(***************************************************************************)
(* Collaborators outside this file: execute, getProtocol, formatMessage.   *)
(***************************************************************************)
UndefinedValue == [kind |-> "undefined", data |-> 0, op |-> "none"]

NullValue == [kind |-> "null", data |-> 0, op |-> "none"]

RaiseItem == [kind |-> "raise", data |-> 0, op |-> "none"]

ResultValue(data, opId) == [kind |-> "value", data |-> data, op |-> opId]

NoIterable == [tag |-> "none", items |-> << >>]

\* execute({operation, connection, pubSub, registerSubscriptions: false,
\* useSubscriptions: true}): rejects, resolves to a plain result, or
\* resolves to an async iterable of execution results.
execute(subscriber, ps) ==
    LET op == subscriber.operation
        source == asyncIterator(ps, ArrayRequest(op.names))
        resolved == [k \in 1..Len(source.items) |->
                        ResultValue(source.items[k].data, subscriber.operationId)]
    IN  CASE op.kind = "throws" -> [tag |-> "raise", items |-> << >>]
          [] op.kind = "invalid" -> [tag |-> "value", items |-> << >>]
          [] op.kind = "pullThrows" -> [tag |-> "iterable", items |-> << RaiseItem >>]
          [] op.kind = "yieldsNull" -> [tag |-> "iterable", items |-> << NullValue >>]
          [] source.tag = "raise" -> [tag |-> "value", items |-> << >>]
          [] op.kind = "stream" ->
                [tag |-> "iterable",
                 items |-> resolved \o << ResultValue(2, subscriber.operationId) >>]
          [] OTHER -> [tag |-> "iterable", items |-> resolved]

\* getProtocol(useLegacyProtocol).SERVER_EVENT_TYPES
getProtocol(useLegacyProtocol) ==
    IF useLegacyProtocol = "true"
    THEN [GQL_DATA |-> "legacy-data"]
    ELSE [GQL_DATA |-> "data"]

formatMessage(id, payload, type) == [id |-> id, payload |-> payload, type |-> type]

(***************************************************************************)
(* State.                                                                  *)
(***************************************************************************)
VARIABLES
    eventNames,   \* the argument of an asyncIterator call made on a PubSub directly
    Records,      \* the batch of the invocation
    registry,     \* the subscription registry: live, or pinned contents
    i,            \* index of the record the for loop is at
    pc,           \* position of the handler: loop, fetch, page, done, failed
    failure,      \* what escaped to the host: none, decode, registry, subscriber
    event,        \* the decoded event of record i
    pageNo,       \* pages subscribersByEventName has yielded for this event
    subscribers,  \* the page being processed
    task,         \* per subscriber of the page: position of its async function
    pubSub,       \* per subscriber: the events of its own PubSub
    iterable,     \* per subscriber: what execute resolved to
    result,       \* per subscriber: the value of iterator.next()
    pulls,        \* per subscriber: number of iterator.next() calls
    sendCalls,    \* per subscriber: its sendToConnection calls (connection, message)
    calls,        \* for the record last picked up: whether the registry was
                  \* asked and, for its page last fetched, whether execute and
                  \* sendToConnection were called and a rejection was caught
    invocation,   \* number of the invocation of the handler
    delivered     \* per invocation: the recorded sendToConnection calls

vars == << eventNames, Records, registry, i, pc, failure, event, pageNo, subscribers, task,
           pubSub, iterable, result, pulls, sendCalls, calls, invocation, delivered >>

taskVars == << task, pubSub, iterable, result, pulls, sendCalls >>

NoCalls ==
    [queried |-> FALSE, executed |-> FALSE, sent |-> FALSE, caught |-> FALSE,
     deliverOnly |-> TRUE]

LiveRegistry == [live |-> TRUE, pages |-> << >>, failAt |-> -1, added |-> {}]

IdleTasks ==
    /\ task = [s \in SubscriberIds |-> "idle"]
    /\ pubSub = [s \in SubscriberIds |-> << >>]
    /\ iterable = [s \in SubscriberIds |-> NoIterable]
    /\ result = [s \in SubscriberIds |-> UndefinedValue]
    /\ pulls = [s \in SubscriberIds |-> 0]
    /\ sendCalls = [s \in SubscriberIds |-> << >>]

\* the locals of the async functions of a page are dropped
ResetTasks ==
    /\ task' = [s \in SubscriberIds |-> "idle"]
    /\ pubSub' = [s \in SubscriberIds |-> << >>]
    /\ iterable' = [s \in SubscriberIds |-> NoIterable]
    /\ result' = [s \in SubscriberIds |-> UndefinedValue]
    /\ pulls' = [s \in SubscriberIds |-> 0]
    /\ sendCalls' = [s \in SubscriberIds |-> << >>]

\* The handler as createDynamoDBEventProcessor returns it, called on a batch.
HandlerStart ==
    /\ i = 1
    /\ pc = "loop"
    /\ failure = "none"
    /\ event = NoEvent
    /\ pageNo = 0
    /\ subscribers = {}
    /\ IdleTasks
    /\ calls = NoCalls

Init ==
    /\ eventNames = NoRequest
    /\ Records \in Batches
    /\ registry = LiveRegistry
    /\ invocation = 1
    /\ delivered = [n \in 1..MaxInvocations |-> EmptyBag]
    /\ HandlerStart

(***************************************************************************)
(* The subscription registry: subscribersByEventName.                      *)
(***************************************************************************)
Answer(kind, page) == [kind |-> kind, page |-> page]

\* Pinned contents: the pages registered for event name "A"; failAt = 0
\* raises when the sequence is created, failAt = k > 0 raises at fetch k.
PinnedPages(name) == IF name = "A" THEN registry.pages ELSE << >>

\* subscribersByEventName(name): the sequence is created or the call raises.
CreateAnswers(name) ==
    IF registry.live
    THEN {"ok", "raise"}
    ELSE IF name = "A" /\ registry.failAt = 0 THEN {"raise"} ELSE {"ok"}

\* The k-th next() of the sequence: a page, the end, or a raise.
FetchAnswers(name, k) ==
    IF registry.live
    THEN { Answer("page", p) : p \in IF k <= MaxPages THEN Pages ELSE {} }
            \cup { Answer("end", {}), Answer("raise", {}) }
    ELSE IF name = "A" /\ registry.failAt = k
         THEN { Answer("raise", {}) }
         ELSE IF k <= Len(PinnedPages(name))
              THEN { Answer("page", PinnedPages(name)[k]) }
              ELSE { Answer("end", {}) }

(***************************************************************************)
(* processDynamoDBStreamEvents: the record loop.                           *)
(***************************************************************************)
\* a handler that passes over REMOVE records only
IsInsertOrModify(record) == record.eventName # "REMOVE"

\* record.eventName !== 'INSERT' is skipped
IsInsert(record) == record.eventName = "INSERT"

\* a handler that does not await the body of the record loop
AtRecordNoAwait == pc \in {"loop", "fetch", "page"} /\ i <= Len(Records)

\* for (const record of Records): the body of the previous record is over
AtRecord == pc = "loop" /\ i <= Len(Records)

\* a handler that swallows the raise and goes on with the next record
AfterRegistryRaiseSwallowed == [pc |-> "loop", i |-> i + 1]

\* What a raise of subscribersByEventName does to the handler: nothing
\* catches it, the async function rejects where it stands.
AfterRegistryRaise == [pc |-> "failed", i |-> i]

\* for (const record of Records) is exhausted: the handler resolves.
Finish ==
    /\ pc = "loop"
    /\ i > Len(Records)
    /\ pc' = "done"
    /\ UNCHANGED << eventNames, Records, registry, i, failure, event, pageNo, subscribers,
                    taskVars, calls, invocation, delivered >>

\* a record that is no INSERT: continue
SkipRecord ==
    /\ AtRecord
    /\ ~IsInsert(Records[i])
    /\ i' = i + 1
    /\ calls' = NoCalls
    /\ UNCHANGED << eventNames, Records, registry, pc, failure, event, pageNo, subscribers,
                    taskVars, invocation, delivered >>

\* unmarshall raises: nothing catches it, the handler rejects.
DecodeFails ==
    /\ AtRecord
    /\ IsInsert(Records[i])
    /\ UnmarshallThrows(Records[i])
    /\ pc' = "failed"
    /\ failure' = "decode"
    /\ calls' = NoCalls
    /\ UNCHANGED << eventNames, Records, registry, i, event, pageNo, subscribers,
                    taskVars, invocation, delivered >>

\* the event is decoded and subscribersByEventName(event.event) is called
StartEvent ==
    /\ AtRecord
    /\ IsInsert(Records[i])
    /\ ~UnmarshallThrows(Records[i])
    /\ "ok" \in CreateAnswers(Unmarshall(Records[i]).event)
    /\ event' = Unmarshall(Records[i])
    /\ pc' = "fetch"
    /\ pageNo' = 0
    /\ calls' = [NoCalls EXCEPT !.queried = TRUE]
    /\ UNCHANGED << eventNames, Records, registry, i, failure, subscribers,
                    taskVars, invocation, delivered >>

\* subscribersByEventName(event.event) raises
CreateFails ==
    /\ AtRecord
    /\ IsInsert(Records[i])
    /\ ~UnmarshallThrows(Records[i])
    /\ "raise" \in CreateAnswers(Unmarshall(Records[i]).event)
    /\ event' = Unmarshall(Records[i])
    /\ pc' = AfterRegistryRaise.pc
    /\ i' = AfterRegistryRaise.i
    /\ failure' = "registry"
    /\ calls' = [NoCalls EXCEPT !.queried = TRUE]
    /\ UNCHANGED << eventNames, Records, registry, pageNo, subscribers,
                    taskVars, invocation, delivered >>

(***************************************************************************)
(* The page loop: for await (const subscribers of ...).                    *)
(***************************************************************************)
\* The next page arrives; subscribers.map(async subscriber => ...) starts
\* one async function per subscriber, each with its own new PubSub([event]).
FetchPage(p) ==
    /\ pc = "fetch"
    /\ Answer("page", p) \in FetchAnswers(event.event, pageNo + 1)
    /\ pageNo' = pageNo + 1
    /\ subscribers' = p
    /\ pc' = "page"
    /\ task' = [s \in SubscriberIds |-> IF s \in p THEN "execute" ELSE "idle"]
    /\ pubSub' = [s \in SubscriberIds |-> IF s \in p THEN << event >> ELSE << >>]
    /\ calls' = [NoCalls EXCEPT !.queried = TRUE]
    /\ UNCHANGED << eventNames, Records, registry, i, failure, event, iterable, result,
                    pulls, sendCalls, invocation, delivered >>

\* the sequence of pages ends: on to the next record
FetchEnd ==
    /\ pc = "fetch"
    /\ Answer("end", {}) \in FetchAnswers(event.event, pageNo + 1)
    /\ pc' = "loop"
    /\ i' = i + 1
    /\ UNCHANGED << eventNames, Records, registry, failure, event, pageNo, subscribers,
                    taskVars, calls, invocation, delivered >>

\* fetching the next page raises
FetchFails ==
    /\ pc = "fetch"
    /\ Answer("raise", {}) \in FetchAnswers(event.event, pageNo + 1)
    /\ pc' = AfterRegistryRaise.pc
    /\ i' = AfterRegistryRaise.i
    /\ failure' = "registry"
    /\ UNCHANGED << eventNames, Records, registry, event, pageNo, subscribers,
                    taskVars, calls, invocation, delivered >>

(***************************************************************************)
(* The async function of one subscriber of the page.                       *)
(***************************************************************************)
\* a handler whose default is the legacy protocol
UseLegacyProtocolDefaultTrue(connection) ==
    IF connection.data.useLegacyProtocol = "undefined"
    THEN "true"
    ELSE connection.data.useLegacyProtocol

\* const { useLegacyProtocol = false } = subscriber.connection.data
UseLegacyProtocol(connection) ==
    IF connection.data.useLegacyProtocol = "undefined"
    THEN "false"
    ELSE connection.data.useLegacyProtocol

\* a handler that tests result.value !== undefined
HasValueStrict(value) == value.kind # "undefined"

\* result.value != null
HasValue(value) == value.kind \notin {"null", "undefined"}

\* a handler that addresses the first subscriber of the page
SendTargetFirst(s) ==
    SubscriberPool[CHOOSE t \in subscribers : \A u \in subscribers : t <= u].connection

\* the first argument of sendToConnection
SendTarget(s) == SubscriberPool[s].connection

\* formatMessage({ id, payload, type }) for the value v
MessageOf(s, v) ==
    formatMessage(SubscriberPool[s].operationId,
                  v,
                  getProtocol(UseLegacyProtocol(SubscriberPool[s].connection)).GQL_DATA)

\* a handler whose tasks of a page keep the pulled result in one variable
\* declared outside the async function
MessageForShared(s) ==
    MessageOf(s, result[CHOOSE t \in subscribers : \A u \in subscribers : t <= u])

\* payload: result.value, result a local of the async function
MessageFor(s) == MessageOf(s, result[s])

\* a handler that keeps pulling while the iterable has values
AfterDeliverStream(s) == IF iterable[s].items # << >> THEN "pull" ELSE "resolved"

\* return connectionManager.sendToConnection(...): the function is over
AfterDeliver(s) == "resolved"

\* a handler without the catch: the mapped promise stays rejected
CatchOutcomeRethrow == "rethrown"

\* promise.catch(e => console.log(e)): the mapped promise is fulfilled
CatchOutcome == "caught"

Settled(s) == task[s] \in {"resolved", "caught"}

\* a handler that waits for the first promise only (Promise.race)
PromiseRace(page) ==
    IF \E s \in page : task[s] = "rethrown"
    THEN "rejected"
    ELSE IF \E s \in page : Settled(s) THEN "fulfilled" ELSE "pending"

\* a handler whose page is over as soon as one failure was caught
PromiseAllFastFail(page) ==
    IF \E s \in page : task[s] = "rethrown"
    THEN "rejected"
    ELSE IF (\E s \in page : task[s] = "caught") \/ (\A s \in page : Settled(s))
         THEN "fulfilled"
         ELSE "pending"

\* a handler with a timeout of its own: the await of the page returns
\* whether or not the tasks of the page are over
PromiseAllOrTimeout(page) ==
    IF \E s \in page : task[s] = "rethrown" THEN "rejected" ELSE "fulfilled"

\* Promise.all(promises)
PromiseAll(page) ==
    IF \E s \in page : task[s] = "rethrown"
    THEN "rejected"
    ELSE IF \A s \in page : Settled(s) THEN "fulfilled" ELSE "pending"

\* a handler without the isAsyncIterable test: whatever execute resolves
\* to is pulled from
AfterExecuteNoTest(r) == IF r.tag = "raise" THEN "rejected" ELSE "pull"

\* if (!isAsyncIterable(iterable)) return Promise.resolve(), after the await
AfterExecute(r) ==
    CASE r.tag = "raise" -> "rejected"
      [] r.tag = "iterable" -> "pull"
      [] OTHER -> "resolved"

\* a handler whose subscribers of a page share one source and one iterator
IteratorOfShared(s) == CHOOSE t \in subscribers : \A u \in subscribers : t <= u

\* const pubSub = new PubSub([event]) and getAsyncIterator(iterable) are
\* locals of the async function of subscriber s
IteratorOf(s) == s

\* a handler that calls execute as a new subscribe request
ExecuteOptionsRegister == [registerSubscriptions |-> TRUE, useSubscriptions |-> TRUE]

\* registerSubscriptions: false, useSubscriptions: true
ExecuteOptions == [registerSubscriptions |-> FALSE, useSubscriptions |-> TRUE]

\* What an execute call leaves in the subscription registry: it registers
\* the operation of the subscriber when it is asked to, and only then.
RegistryAfterExecute(options, s) ==
    IF options.registerSubscriptions
    THEN [registry EXCEPT !.added = @ \cup {s}]
    ELSE registry

\* await execute({...}) and the isAsyncIterable test
Execute(s) ==
    /\ pc = "page"
    /\ task[s] = "execute"
    /\ LET r == execute(SubscriberPool[s], pubSub[IteratorOf(s)])
       IN  /\ iterable' = [iterable EXCEPT ![IteratorOf(s)] = r]
           /\ task' = [task EXCEPT ![s] = AfterExecute(r)]
    /\ registry' = RegistryAfterExecute(ExecuteOptions, s)
    /\ calls' = [calls EXCEPT !.executed = TRUE,
                              !.deliverOnly = /\ @
                                              /\ ~ExecuteOptions.registerSubscriptions
                                              /\ ExecuteOptions.useSubscriptions]
    /\ UNCHANGED << eventNames, Records, i, pc, failure, event, pageNo, subscribers,
                    pubSub, result, pulls, sendCalls, invocation, delivered >>

\* a handler that remembers what it sent and sends nothing twice
NextAfterPullDedup(s, value) ==
    IF /\ HasValue(value)
       /\ ~BagIn([connection |-> SendTarget(s), message |-> MessageOf(s, value)],
                 delivered[1])
    THEN "deliver"
    ELSE "resolved"

\* if (result.value != null) { return sendToConnection(...) } return
NextAfterPull(s, value) == IF HasValue(value) THEN "deliver" ELSE "resolved"

\* await iterator.next() and the result.value != null test
Pull(s) ==
    /\ pc = "page"
    /\ task[s] = "pull"
    /\ pulls' = [pulls EXCEPT ![s] = @ + 1]
    /\ LET items == iterable[IteratorOf(s)].items
           value == IF items = << >> THEN UndefinedValue ELSE Head(items)
       IN  IF value.kind = "raise"
           THEN /\ task' = [task EXCEPT ![s] = "rejected"]
                /\ UNCHANGED << iterable, result >>
           ELSE /\ result' = [result EXCEPT ![s] = value]
                /\ iterable' = [iterable EXCEPT ![IteratorOf(s)].items =
                                    IF items = << >> THEN << >> ELSE Tail(items)]
                /\ task' = [task EXCEPT ![s] = NextAfterPull(s, value)]
    /\ UNCHANGED << eventNames, Records, registry, i, pc, failure, event, pageNo, subscribers,
                    pubSub, sendCalls, calls, invocation, delivered >>

SendCallOf(s) == [connection |-> SendTarget(s), message |-> MessageFor(s)]

\* connectionManager.sendToConnection(subscriber.connection, message)
SendCall(s) ==
    /\ pc = "page"
    /\ task[s] = "deliver"
    /\ sendCalls' = [sendCalls EXCEPT ![s] = Append(@, SendCallOf(s))]
    /\ task' = [task EXCEPT ![s] =
                   IF SendTarget(s).id \in GoneConnections
                   THEN "rejected"
                   ELSE AfterDeliver(s)]
    /\ calls' = [calls EXCEPT !.sent = TRUE]
    /\ UNCHANGED << eventNames, Records, registry, i, pc, failure, event, pageNo, subscribers,
                    pubSub, iterable, result, pulls, invocation >>

Send(s) == SendCall(s) /\ UNCHANGED delivered

\* the rejection of the async function reaches its catch handler
Catch(s) ==
    /\ pc = "page"
    /\ task[s] = "rejected"
    /\ task' = [task EXCEPT ![s] = CatchOutcome]
    /\ calls' = [calls EXCEPT !.caught = TRUE]
    /\ UNCHANGED << eventNames, Records, registry, i, pc, failure, event, pageNo, subscribers,
                    pubSub, iterable, result, pulls, sendCalls,
                    invocation, delivered >>

\* await Promise.all(promises) returns (or raises): the next page is asked for
AwaitAll ==
    /\ pc = "page"
    /\ PromiseAll(subscribers) # "pending"
    /\ IF PromiseAll(subscribers) = "fulfilled"
       THEN /\ pc' = "fetch"
            /\ UNCHANGED failure
       ELSE /\ pc' = "failed"
            /\ failure' = "subscriber"
    /\ subscribers' = {}
    /\ ResetTasks
    /\ UNCHANGED << eventNames, Records, registry, i, event, pageNo, calls, invocation, delivered >>

(***************************************************************************)
(* The handler called once on a batch, against a live registry.            *)
(***************************************************************************)
Next ==
    \/ Finish
    \/ SkipRecord
    \/ DecodeFails
    \/ StartEvent
    \/ CreateFails
    \/ \E p \in Pages : FetchPage(p)
    \/ FetchEnd
    \/ FetchFails
    \/ \E s \in SubscriberIds : Execute(s)
    \/ \E s \in SubscriberIds : Pull(s)
    \/ \E s \in SubscriberIds : Send(s)
    \/ \E s \in SubscriberIds : Catch(s)
    \/ AwaitAll

Spec == Init /\ [][Next]_vars

(***************************************************************************)
(* Redelivery: the host calls the handler again with the same batch,       *)
(* against a registry whose contents are pinned, and every                 *)
(* sendToConnection call is recorded per invocation.                       *)
(***************************************************************************)
\* The subscribers that can be registered for event "A" in the pinned registry.
PinnedIds == {1, 3, 5, 9}

Smallest(S, n) == { s \in S : Cardinality({ t \in S : t < s }) < n }

RECURSIVE PagesOf(_, _)
\* the registered subscribers in pages of n
PagesOf(S, n) ==
    IF S = {} THEN << >> ELSE << Smallest(S, n) >> \o PagesOf(S \ Smallest(S, n), n)

PinnedRegistries ==
    { [live |-> FALSE, pages |-> PagesOf(S, n), failAt |-> f, added |-> {}] :
        S \in SUBSET PinnedIds, n \in 1..MaxPageSize, f \in -1..2 }

InitRedelivery ==
    /\ eventNames = NoRequest
    /\ Records \in Batches
    /\ registry \in PinnedRegistries
    /\ invocation = 1
    /\ delivered = [n \in 1..MaxInvocations |-> EmptyBag]
    /\ HandlerStart

\* One invocation against a registry of finitely many pages, where every
\* call the handler awaits returns or raises and the continuation of a
\* settled promise is run: a step that can be taken is eventually taken.
SpecFair == InitRedelivery /\ [][Next]_vars /\ WF_vars(Next)

\* sendToConnection as the recording connection manager sees it
SendRecorded(s) ==
    /\ SendCall(s)
    /\ delivered' = [delivered EXCEPT ![invocation] = @ (+) SetToBag({SendCallOf(s)})]

\* The invocation is over, resolved or rejected; the host delivers the same
\* batch again. processDynamoDBStreamEvents starts from its parameters only.
Redeliver ==
    /\ pc \in {"done", "failed"}
    /\ invocation < MaxInvocations
    /\ invocation' = invocation + 1
    /\ i' = 1
    /\ pc' = "loop"
    /\ failure' = "none"
    /\ event' = NoEvent
    /\ pageNo' = 0
    /\ subscribers' = {}
    /\ ResetTasks
    /\ calls' = NoCalls
    /\ UNCHANGED << eventNames, Records, registry, delivered >>

NextRedelivery ==
    \/ Finish
    \/ SkipRecord
    \/ DecodeFails
    \/ StartEvent
    \/ CreateFails
    \/ \E p \in Pages : FetchPage(p)
    \/ FetchEnd
    \/ FetchFails
    \/ \E s \in SubscriberIds : Execute(s)
    \/ \E s \in SubscriberIds : Pull(s)
    \/ \E s \in SubscriberIds : SendRecorded(s)
    \/ \E s \in SubscriberIds : Catch(s)
    \/ AwaitAll
    \/ Redeliver

SpecRedelivery == InitRedelivery /\ [][NextRedelivery]_vars

(***************************************************************************)
(* Properties.                                                             *)
(***************************************************************************)
\* The record the loop picked up last.
LastPicked == IF pc \in {"loop", "done"} THEN i - 1 ELSE i

\* What the engine yields first for subscriber s on event e, independent of
\* the handler: undefined when there is nothing to pull.
FirstItem(s, e) ==
    LET r == execute(SubscriberPool[s], << e >>)
    IN  IF r.tag = "iterable" /\ r.items # << >> THEN Head(r.items) ELSE UndefinedValue

DeliveryRaises(s) == SubscriberPool[s].connection.id \in GoneConnections

\* C1: whatever subset of the subscribers fails (execute raises, the pull
\* raises, sendToConnection raises), no failure of a subscriber escapes the
\* handler: the handler only ever fails on a decode or a registry failure,
\* and a page whose tasks have all finished is a page Promise.all fulfils.
C1_SubscriberFailuresDoNotEscape ==
    /\ failure # "subscriber"
    /\ pc = "failed" => failure \in {"decode", "registry"}
    /\ pc = "page" => PromiseAll(subscribers) # "rejected"

\* the handler resolved although, for its last record, an engine failure
\* was caught
C1_Witness ==
    /\ pc = "done"
    /\ failure = "none"
    /\ calls.caught
    /\ calls.executed

\* C2: failure isolation. When the tasks of a page are over, every
\* subscriber of the page whose own execution yields a value and whose own
\* connection is not gone has had its sendToConnection call, whatever the
\* other subscribers of the page did, and the page is fulfilled so the page
\* loop goes on; no task of a page is left behind unfinished.
C2_FailureIsolation ==
    pc = "page" /\ PromiseAll(subscribers) # "pending" =>
        /\ PromiseAll(subscribers) = "fulfilled"
        /\ \A s \in subscribers :
              /\ task[s] \in {"resolved", "caught"}
              /\ FirstItem(s, event).kind = "value" /\ ~DeliveryRaises(s) =>
                    /\ Len(sendCalls[s]) = 1
                    /\ sendCalls[s][1].connection = SubscriberPool[s].connection
                    /\ task[s] = "resolved"

\* in the second page of an event, a subscriber has been delivered to
\* next to one whose execution raised and was caught
C2_Witness ==
    /\ pc = "page"
    /\ pageNo = 2
    /\ subscribers = {1, 5}
    /\ task[5] = "caught"
    /\ Len(sendCalls[1]) = 1
    /\ task[1] = "resolved"

\* C3: a record that is no INSERT causes no subscribersByEventName call, no
\* execute call and no sendToConnection call, and the loop is at the next
\* record right after it.
C3_NonInsertSkipped ==
    LastPicked >= 1 /\ Records[LastPicked].eventName # "INSERT" =>
        /\ pc \in {"loop", "done"}
        /\ calls = NoCalls
        /\ subscribers = {}
        /\ IdleTasks

\* a MODIFY or REMOVE record was passed over and an INSERT follows it
C3_Witness ==
    /\ pc = "loop"
    /\ i = 2
    /\ Len(Records) = 2
    /\ Records[1].eventName \in {"MODIFY", "REMOVE"}
    /\ Records[2].eventName = "INSERT"

\* C4: per subscriber entry of a page, iterator.next is called at most once
\* and sendToConnection at most once; what the iterable holds after its
\* first value stays unpulled.
C4_OnePullOneSend ==
    \A s \in SubscriberIds :
        /\ pulls[s] <= 1
        /\ Len(sendCalls[s]) <= 1
        /\ s \in subscribers /\ task[s] \in {"deliver", "resolved", "caught"}
              /\ iterable[s].tag = "iterable" /\ pulls[s] = 1
              /\ FirstItem(s, event).kind # "raise" =>
                LET all == execute(SubscriberPool[s], << event >>).items
                IN  iterable[s].items = IF all = << >> THEN << >> ELSE Tail(all)

\* the streaming operation is over after one value, its second value unpulled
C4_Witness ==
    /\ 2 \in subscribers
    /\ task[2] = "resolved"
    /\ pulls[2] = 1
    /\ Len(sendCalls[2]) = 1
    /\ iterable[2].items # << >>

\* The failing decode of an INSERT record (image absent or malformed):
\* C5 as stated: such a record is skipped, the handler does not fail, no
\* subscriber resolution and no delivery happen for it.
C5_BadImageSkipped ==
    LastPicked >= 1 /\ Records[LastPicked].eventName = "INSERT"
        /\ Records[LastPicked].dynamodb.image \in {"absent", "malformed"} =>
            /\ pc \in {"loop", "done"}
            /\ failure = "none"
            /\ calls = NoCalls

\* C6: the type of every delivered message is the data tag of the
\* vocabulary the flag of the subscriber's own connection selects: legacy
\* for true, current for false, for an absent flag and for any other value.
C6_TypeFollowsProtocolFlag ==
    \A s \in SubscriberIds : \A k \in 1..Len(sendCalls[s]) :
        LET flag == SubscriberPool[s].connection.data.useLegacyProtocol
        IN  sendCalls[s][k].message.type =
                CASE flag = "true" -> "legacy-data"
                  [] flag = "false" -> "data"
                  [] flag = "undefined" -> "data"
                  [] OTHER -> "data"

\* in one page a legacy connection and a connection without flag were sent to
C6_Witness ==
    /\ subscribers = {2, 3}
    /\ Len(sendCalls[2]) = 1
    /\ Len(sendCalls[3]) = 1
    /\ sendCalls[2][1].message.type = "legacy-data"
    /\ sendCalls[3][1].message.type = "data"

\* C7: every sendToConnection call of a subscriber goes to that subscriber's
\* connection, with its operationId as id and the first value of its own
\* execution result as payload, under every interleaving of the page.
C7_OwnConnectionIdPayload ==
    \A s \in SubscriberIds : \A k \in 1..Len(sendCalls[s]) :
        /\ s \in subscribers
        /\ sendCalls[s][k].connection = SubscriberPool[s].connection
        /\ sendCalls[s][k].message.id = SubscriberPool[s].operationId
        /\ sendCalls[s][k].message.payload = FirstItem(s, event)
        /\ sendCalls[s][k].message.payload.op = SubscriberPool[s].operationId

\* two subscribers of one page were both sent to, the second one first
C7_Witness ==
    /\ subscribers = {1, 2}
    /\ Len(sendCalls[2]) = 1
    /\ task[2] = "resolved"
    /\ task[1] = "deliver"
    /\ sendCalls[1] = << >>

\* C8: a subscriber whose first pulled value is null or undefined gets no
\* sendToConnection call and its task resolves without a caught error.
C8_AbsentValueNotSent ==
    \A s \in subscribers :
        pulls[s] = 1 /\ FirstItem(s, event).kind \in {"null", "undefined"} =>
            /\ sendCalls[s] = << >>
            /\ task[s] = "resolved"
            /\ result[s].kind \in {"null", "undefined"}

\* a null first value and a matching subscriber in one page: only the
\* matching one is sent to
C8_Witness ==
    /\ subscribers = {1, 9}
    /\ pulls[9] = 1
    /\ result[9] = NullValue
    /\ task[9] = "resolved"
    /\ sendCalls[9] = << >>
    /\ Len(sendCalls[1]) = 1

C9_RedeliveryRepeatsDeliveries ==
    \A n \in 2..MaxInvocations :
        /\ invocation = n => delivered[n] \sqsubseteq delivered[1]
        /\ invocation > n \/ (invocation = n /\ pc \in {"done", "failed"}) =>
              delivered[n] = delivered[1]

\* the second invocation is over and has repeated the calls of the first,
\* among them a call on a connection that is gone
C9_Witness ==
    /\ invocation = 2
    /\ pc = "done"
    /\ Len(Records) = 2
    /\ BagCardinality(delivered[1]) >= 3
    /\ BagIn([connection |-> C3conn, message |-> MessageOf(3, ResultValue(1, "o3"))],
             delivered[2])
    /\ delivered[2] = delivered[1]

\* C11 as stated: whatever decoding, the engine and delivery do, the
\* handler never fails; the only failure a host can see is one of the
\* subscriber registry.
C11_NoErrorPathToHost ==
    pc = "failed" => failure = "registry"

\* C14: a subscriber for which execute resolved to something that is no
\* async iterable is pulled from zero times and sent to zero times, its task
\* is resolved, not caught, and the handler has not failed.
C14_NotIterableIsNoOp ==
    \A s \in subscribers :
        iterable[s].tag = "value" =>
            /\ pulls[s] = 0
            /\ sendCalls[s] = << >>
            /\ result[s] = UndefinedValue
            /\ task[s] = "resolved"
            /\ pc = "page"
            /\ failure = "none"

\* the page of a subscriber whose operation is invalid is over, nothing
\* was caught, and its sibling was sent to
C14_Witness ==
    /\ subscribers = {1, 6}
    /\ iterable[6].tag = "value"
    /\ task[6] = "resolved"
    /\ task[1] = "resolved"
    /\ Len(sendCalls[1]) = 1
    /\ ~calls.caught

\* The tasks that have started and are not over.
InFlight == { s \in SubscriberIds : task[s] \in {"execute", "pull", "deliver", "rejected"} }

\* C12: pages are processed one after the other with a joint await. A page
\* is left only when every task of it is over, the caught failures
\* included, and the registry is asked for a page only when no task is in
\* flight; so the tasks in flight always belong to the one page of the one
\* event being processed.
C12_PagesSequentialJointAwait ==
    /\ [](/\ InFlight \subseteq subscribers
          /\ InFlight # {} => pc = "page"
          /\ pc = "fetch" => \A s \in SubscriberIds : task[s] = "idle"
          /\ \A s \in SubscriberIds : pubSub[s] \in {<< >>, << event >>})
    /\ [][/\ pc = "page" /\ pc' # "page" =>
                \A s \in subscribers : task[s] \in {"resolved", "caught"}
          /\ pageNo' # pageNo /\ pageNo' # 0 =>
                /\ pc = "fetch"
                /\ pageNo' = pageNo + 1
                /\ InFlight = {}]_vars

\* a failure of one subscriber has been caught while its sibling of the
\* page has not yet been executed: the page is not over
C12_Witness ==
    /\ pc = "page"
    /\ pageNo = 1
    /\ subscribers = {1, 5}
    /\ task[5] = "caught"
    /\ task[1] = "execute"
    /\ PromiseAll(subscribers) = "pending"

\* C13: records are processed one after the other in the order given. The
\* loop moves from record i to record i + 1, and to no other, only when no
\* task is in flight and the pages of record i are exhausted (or record i
\* was passed over); every task and every collaborator call belongs to the
\* record the loop is at, so all calls for record i precede those for i + 1.
C13_RecordsSequentialInOrder ==
    /\ [](/\ i \in 1..(Len(Records) + 1)
          /\ pc \in {"fetch", "page"} =>
                /\ i <= Len(Records)
                /\ event = Unmarshall(Records[i])
                /\ \A s \in subscribers : pubSub[s] = << event >>
          /\ pc = "loop" => InFlight = {} /\ subscribers = {})
    /\ [][/\ i' # i =>
                /\ i' = i + 1
                /\ InFlight = {}
                /\ pc \in {"loop", "fetch"}
                /\ pc' = "loop"
          /\ task' # task \/ sendCalls' # sendCalls \/ pulls' # pulls =>
                /\ i' = i
                /\ pc \in {"fetch", "page"}
          /\ event' # event => pc = "loop" /\ InFlight = {}]_vars

\* the second record of the batch is being delivered for after the first,
\* an INSERT too, was processed
C13_Witness ==
    /\ i = 2
    /\ pc = "page"
    /\ Records[1].eventName = "INSERT"
    /\ Records[1].dynamodb.image = "present"
    /\ subscribers = {1, 2}
    /\ Len(sendCalls[1]) = 1
    /\ task[2] = "pull"


(***************************************************************************)
(* The PubSub class on its own: one wrapped event, one asyncIterator call, *)
(* and the returned iterator drained by next().                            *)
(***************************************************************************)
PayloadSet ==
    { [form |-> "object", data |-> 1], [form |-> "object", data |-> 2],
      [form |-> "string", data |-> 1], [form |-> "string", data |-> 2],
      [form |-> "invalid", data |-> 1], NoPayload }

EventSet == [event : {"A", "B"}, payload : PayloadSet]

RequestSet ==
    { NameRequest(n) : n \in {"A", "B"} } \cup
    { ArrayRequest(ns) : ns \in SUBSET {"A", "B"} }

IteratorResult(done, value) == [done |-> done, value |-> value]

\* new PubSub([event]); nothing subscribed yet
InitPubSub ==
    /\ eventNames = NoRequest
    /\ Records = << >>
    /\ registry = LiveRegistry
    /\ invocation = 1
    /\ delivered = [n \in 1..MaxInvocations |-> EmptyBag]
    /\ i = 1
    /\ pc = "pubsub"
    /\ failure = "none"
    /\ \E e \in EventSet :
          /\ event = e
          /\ pubSub = [s \in SubscriberIds |-> IF s = 1 THEN << e >> ELSE << >>]
    /\ pageNo = 0
    /\ subscribers = {}
    /\ task = [s \in SubscriberIds |-> "idle"]
    /\ iterable = [s \in SubscriberIds |-> NoIterable]
    /\ result = [s \in SubscriberIds |-> UndefinedValue]
    /\ pulls = [s \in SubscriberIds |-> 0]
    /\ sendCalls = [s \in SubscriberIds |-> << >>]
    /\ calls = NoCalls

\* pubSub.asyncIterator(eventNames): returns the iterator or raises
Subscribe(req) ==
    /\ pc = "pubsub"
    /\ task[1] = "idle"
    /\ eventNames' = req
    /\ LET r == asyncIterator(pubSub[1], req)
       IN  /\ iterable' = [iterable EXCEPT ![1] = r]
           /\ task' = [task EXCEPT ![1] = IF r.tag = "raise" THEN "rejected" ELSE "pull"]
    /\ UNCHANGED << Records, registry, i, pc, failure, event, pageNo, subscribers,
                    pubSub, result, pulls, sendCalls, calls, invocation, delivered >>

\* next() on the iterator createAsyncIterator made from the collection
IteratorNext ==
    /\ pc = "pubsub"
    /\ task[1] = "pull"
    /\ pulls[1] < MaxNext
    /\ pulls' = [pulls EXCEPT ![1] = @ + 1]
    /\ LET items == iterable[1].items
       IN  IF items = << >>
           THEN /\ result' = [result EXCEPT ![1] = IteratorResult(TRUE, NoPayload)]
                /\ UNCHANGED iterable
           ELSE /\ result' = [result EXCEPT ![1] = IteratorResult(FALSE, Head(items))]
                /\ iterable' = [iterable EXCEPT ![1].items = Tail(items)]
    /\ UNCHANGED << eventNames, Records, registry, i, pc, failure, event, pageNo, subscribers,
                    task, pubSub, sendCalls, calls, invocation, delivered >>

NextPubSub ==
    \/ \E req \in RequestSet : Subscribe(req)
    \/ IteratorNext

SpecPubSub == InitPubSub /\ [][NextPubSub]_vars

\* the payload the claim expects the sequence to yield for a wrapped event
Decoded(payload) ==
    IF payload.form = "string" THEN [form |-> "object", data |-> payload.data] ELSE payload

Requested(req) == IF req.array THEN req.items ELSE {req.name}

\* what a subscription that returned an iterator has yielded and still holds
YieldsAtMostThePayload ==
    LET e == pubSub[1][1]
        match == e.event \in Requested(eventNames)
    IN  /\ pulls[1] = 0 =>
              iterable[1].items = IF match THEN << Decoded(e.payload) >> ELSE << >>
        /\ pulls[1] >= 1 => iterable[1].items = << >>
        /\ pulls[1] = 1 =>
              result[1] = IF match
                          THEN IteratorResult(FALSE, Decoded(e.payload))
                          ELSE IteratorResult(TRUE, NoPayload)
        /\ pulls[1] >= 2 => result[1] = IteratorResult(TRUE, NoPayload)

\* C15: asked for a name or a set of names, asyncIterator returns a finite
\* sequence that yields the wrapped event's payload, decoded when it is a
\* string, exactly when the event's name is among the requested names, and
\* nothing otherwise; the sequence ends after at most one element.
C15_YieldsPayloadIffNameMatches ==
    (pc = "pubsub" /\ eventNames # NoRequest) =>
        /\ iterable[1].tag = "iterable"
        /\ YieldsAtMostThePayload

\* C15, the part the code keeps: when no JSON.parse raises, the returned
\* sequence is as the claim says.
C15_HoldsForParsablePayloads ==
    (pc = "pubsub" /\ eventNames # NoRequest /\ iterable[1].tag = "iterable") =>
        YieldsAtMostThePayload

\* C16: every subscriber of a page has its own source wrapping the one
\* event and its own iterator: until it pulls, its iterator holds all the
\* engine resolved for it, what it pulls is its own first value, and a step
\* of one subscriber's task leaves the source, the iterator and the pulled
\* value of every other subscriber as they were.
C16_OwnSourcePerSubscriber ==
    /\ [](\A s \in subscribers :
            /\ pubSub[s] = << event >>
            /\ task[s] = "pull" => iterable[s] = execute(SubscriberPool[s], << event >>)
            /\ (pulls[s] = 1 /\ FirstItem(s, event).kind # "raise") =>
                   result[s] = FirstItem(s, event))
    /\ [][\A s, t \in SubscriberIds :
            (s # t /\ task'[s] # task[s] /\ pc = "page" /\ pc' = "page") =>
                /\ pubSub'[t] = pubSub[t]
                /\ iterable'[t] = iterable[t]
                /\ result'[t] = result[t]]_vars

\* subscriber 1 has pulled its value while subscriber 2, on the same event,
\* still holds its own unpulled values
C16_Witness ==
    /\ subscribers = {1, 2}
    /\ pulls[1] = 1
    /\ result[1] = FirstItem(1, event)
    /\ task[2] = "pull"
    /\ Len(iterable[2].items) = 2

\* C17: dispatch leaves the state the registries own as it was: every
\* execute call is made with registerSubscriptions false and
\* useSubscriptions true, no step of the handler changes the registry, and
\* nothing is registered by the time the batch is over.
C17_RegistryUnchanged ==
    /\ [](calls.deliverOnly /\ registry.added = {})
    /\ [][registry' = registry]_vars

\* a batch is over whose subscribers, read from the registry, were executed
\* and delivered to
C17_Witness ==
    /\ pc = "done"
    /\ registry.pages # << >>
    /\ registry.added = {}
    /\ delivered[invocation] # EmptyBag

\* C18: on a finite batch and finitely many pages per event, when every
\* awaited call returns or raises the handler eventually completes or
\* fails; and it has no timeout of its own: while a task of the page is not
\* over, no step leaves the page, asks for another page or moves to another
\* record, so a call that never returns holds the handler at its page.
C18_TerminatesWithoutTimeout ==
    /\ <>(pc \in {"done", "failed"})
    /\ [][InFlight # {} =>
            /\ pc' = "page"
            /\ pageNo' = pageNo
            /\ i' = i
            /\ subscribers' = subscribers]_vars

\* the handler is over, the last record of a full batch having had a page
\* whose subscribers were executed
C18_Witness ==
    /\ pc = "done"
    /\ Len(Records) = MaxRecords
    /\ pageNo >= 1
    /\ calls.executed

\* The sendToConnection calls subscriber s gets for event e, from the
\* behaviour of the engine for s alone.
CallsDue(s, e) ==
    IF HasValue(FirstItem(s, e)) /\ FirstItem(s, e).kind = "value"
    THEN << [connection |-> SubscriberPool[s].connection,
             message |-> MessageOf(s, FirstItem(s, e))] >>
    ELSE << >>

\* C19: the sendToConnection calls of a page do not depend on the order in
\* which the steps of its tasks are taken: in every reachable state of a
\* page each subscriber's calls are none or the calls due to it, a task that
\* is over has made exactly the calls due to it, and so a page that is over
\* has made the same calls under every interleaving.
C19_PageOutcomeIndependentOfSchedule ==
    \A s \in subscribers :
        /\ sendCalls[s] \in {<< >>, CallsDue(s, event)}
        /\ task[s] \in {"resolved", "caught"} => sendCalls[s] = CallsDue(s, event)
        /\ task[s] \in {"execute", "pull", "deliver"} => sendCalls[s] = << >>

\* both tasks of a page are over, each having made its one call, the two
\* calls differing in connection, id and type
C19_Witness ==
    /\ subscribers = {1, 2}
    /\ PromiseAll(subscribers) = "fulfilled"
    /\ Len(sendCalls[1]) = 1
    /\ Len(sendCalls[2]) = 1
    /\ sendCalls[1] # sendCalls[2]
=============================================================================
